---- MODULE Spec2Model ----
(***************************************************************************)
(* Model of app.py: the Gridfinity tray generator (generate_scad,          *)
(* generate_svg), the mesh conversion wrapper (scad_to_stl) and the Flask  *)
(* handlers preview_svg, download_scad, model_stl and download_stl.        *)
(*                                                                         *)
(* Lengths are integers counted in units of 0.05 mm (1 mm = 20 units), so  *)
(* the defaults of the code (51.0, 12.0, 3.0, 0.2, 6.0, 1.5, 2.5, 4.0) are *)
(* whole numbers.  Every length the code halves (cell, wall, clearance,    *)
(* rib thickness, post diameter) is drawn from even values, so that x/2 is *)
(* exact; arithmetic is exact, binary floating-point rounding and the      *)
(* decimal formatting of the f-strings are not represented.                *)
(*                                                                         *)
(* A text (the .scad program, the .svg document) is the sequence of its    *)
(* lines; a line is a record [op, name, a]: what the line is, the name it  *)
(* mentions and the numbers the f-string interpolates into it, in order.   *)
(***************************************************************************)
EXTENDS Integers, Sequences, FiniteSets, TLC

VARIABLES entry, args, phase, status, error, scad, svg, converted, stl

vars == <<entry, args, phase, status, error, scad, svg, converted, stl>>

\* ------------------------------------------------------------------ bounds
MaxCols == 2
MaxRows == 2
MaxCellQ == 3
MaxWallHalf == 2
MaxPitch == 2
MaxRibHalf == 3
MaxClearanceHalf == 2
MaxHeightHalf == 2

\* ------------------------------------------------- constants of the program
DefaultCols == 3
DefaultRows == 2
DefaultCell == 1020
DefaultHeight == 240
DefaultWall == 60
DefaultClearance == 4
DefaultPitch == 120
DefaultRib == 30
DefaultRibH == 50
DefaultPostD == 120
DefaultPostH == 80
MinDim == 1
MaxDim == 80

\* ----------------------------------------------------------------- helpers
Half(v) == v \div 2

Min(a, b) == IF a < b THEN a ELSE b

Max(a, b) == IF a > b THEN a ELSE b

L(op, name, a) == [op |-> op, name |-> name, a |-> a]

RECURSIVE Flatten(_)
Flatten(ss) == IF ss = <<>> THEN <<>> ELSE Head(ss) \o Flatten(Tail(ss))

\* range(n) of Python: 0, 1, ..., n-1
Range(n) == [i \in 1..n |-> i - 1]

\* for x in range(cols): for y in range(rows): as the sequence of the
\* (x, y) the loop body sees, in the order it sees them.
ForXY_skip(cols, rows) ==
    Flatten([i \in 1..(cols - 1) |-> [j \in 1..rows |-> <<Range(cols)[i], Range(rows)[j]>>]])

ForXY_rowmajor(cols, rows) ==
    Flatten([j \in 1..rows |-> [i \in 1..cols |-> <<Range(cols)[i], Range(rows)[j]>>]])

ForXY(cols, rows) ==
    Flatten([i \in 1..cols |-> [j \in 1..rows |-> <<Range(cols)[i], Range(rows)[j]>>]])

\* dict.get(key, default); a dict is a function on its keys.
Get(d, key, default) == IF key \in DOMAIN d THEN d[key] ELSE default

\* An optional dict argument: <<>> is None, <<d>> is the dict d.
None == <<>>

Some(d) == <<d>>

\* grid and grid.get('enable'): None and the empty dict are falsy.
Enabled(opt) ==
    /\ opt # None
    /\ DOMAIN opt[1] # {}
    /\ Get(opt[1], "enable", FALSE)

\* --------------------------------------------------------- generate_scad
PocketSize_noclearance(cell, wall, clearance) == cell - wall

PocketSize(cell, wall, clearance) == cell - wall - clearance

ScadHeader(cols, rows, cell, height, wall, clearance) ==
    << L("comment", "Generated Gridfinity SCAD", <<>>),
       L("assign", "cell", <<cell>>),
       L("assign", "cols", <<cols>>),
       L("assign", "rows", <<rows>>),
       L("assign", "height", <<height>>),
       L("assign", "wall", <<wall>>),
       L("assign", "clearance", <<clearance>>) >>

\* module pocket(): translate([wall/2 + clearance/2, wall/2 + clearance/2, 0])
\*                    cube([pocket_w, pocket_h, height])
\* The translation and the cube's third size are expressions over the
\* variables the header assigns; only its z component, 0, is a literal.
ScadPocket(pocket_w, pocket_h) ==
    << L("module", "pocket", <<>>),
       L("translate_inset", "wall/2 + clearance/2", <<0>>),
       L("cube_height", "height", <<pocket_w, pocket_h>>),
       L("end", "module", <<>>) >>

\* module tray(): difference() { cube([total_x, total_y, height + wall]);
\*   for (x = [0:cols-1]) for (y = [0:rows-1]) translate([x*cell, y*cell, 0]) pocket(); }
ScadTray(total_x, total_y, cols, rows) ==
    << L("comment", "outer tray", <<>>),
       L("module", "tray", <<>>),
       L("difference", "", <<>>),
       L("cube_outer", "height + wall", <<total_x, total_y>>),
       L("for_xy", "", <<0, cols - 1, 0, rows - 1>>),
       L("translate_cell", "pocket", <<0>>),
       L("end", "difference", <<>>),
       L("end", "module", <<>>) >>

RibStart(rib) == Half(rib)

RibStop_full(total, rib) == total

RibStop(total, rib) == total - Half(rib)

ScadFloorGrid_alwaysinvoked(grid, total_x, total_y, wall) ==
    IF Enabled(grid)
    THEN << L("module", "floor_grid", <<>>), L("end", "module", <<>>),
            L("call", "floor_grid", <<>>) >>
    ELSE << L("call", "floor_grid", <<>>) >>

ScadFloorGrid(grid, total_x, total_y, wall) ==
    IF Enabled(grid)
    THEN LET pitch == Get(grid[1], "pitch", DefaultPitch)
             rib == Get(grid[1], "thickness", DefaultRib)
             ribh == Get(grid[1], "height", DefaultRibH)
         IN << L("module", "floor_grid", <<>>),
               L("union", "", <<>>),
               L("for_x_rib", "", <<RibStart(rib), pitch, RibStop(total_x, rib),
                                    wall, rib, total_y, ribh>>),
               L("for_y_rib", "", <<RibStart(rib), pitch, RibStop(total_y, rib),
                                    wall, total_x, rib, ribh>>),
               L("end", "union", <<>>),
               L("end", "module", <<>>),
               L("call", "floor_grid", <<>>) >>
    ELSE <<>>

CellCenter(i, cell) == i * cell + Half(cell)

ScadPosts(posts, cols, rows, cell, wall) ==
    IF Enabled(posts)
    THEN LET d == Get(posts[1], "diameter", DefaultPostD)
             h == Get(posts[1], "height", DefaultPostH)
             xy == ForXY(cols, rows)
         IN << L("module", "posts", <<>>), L("union", "", <<>>) >>
            \o [k \in 1..Len(xy) |->
                  L("post", "", <<CellCenter(xy[k][1], cell), CellCenter(xy[k][2], cell),
                                  wall, h, Half(d)>>)]
            \o << L("end", "union", <<>>), L("end", "module", <<>>),
                  L("call", "posts", <<>>) >>
    ELSE <<>>

generate_scad(cols, rows, cell, height, wall, clearance, grid, posts) ==
    LET total_x == cols * cell
        total_y == rows * cell
        pocket_w == PocketSize(cell, wall, clearance)
        pocket_h == PocketSize(cell, wall, clearance)
    IN ScadHeader(cols, rows, cell, height, wall, clearance)
       \o ScadPocket(pocket_w, pocket_h)
       \o ScadTray(total_x, total_y, cols, rows)
       \o ScadFloorGrid(grid, total_x, total_y, wall)
       \o ScadPosts(posts, cols, rows, cell, wall)
       \o << L("call", "tray", <<>>) >>

\* ---------------------------------------------------------- generate_svg
SvgInset_full(wall) == wall

SvgInset(wall) == Half(wall)

generate_svg(cols, rows, cell, wall) ==
    LET width == cols * cell
        height == rows * cell
        inset == SvgInset(wall)
        pocket_w == cell - wall
        pocket_h == cell - wall
        xy == ForXY(cols, rows)
    IN << L("svg_open", "viewBox", <<0, 0, width, height, width, height>>),
          L("style", "rect", <<>>),
          L("rect_border", "", <<0, 0, width, height>>) >>
       \o [k \in 1..Len(xy) |->
             L("rect", "", <<xy[k][1] * cell + inset, xy[k][2] * cell + inset,
                             pocket_w, pocket_h>>)]
       \o << L("svg_close", "", <<>>) >>

\* ----------------------------------------------------------- scad_to_stl
\* What the environment decides for one call of scad_to_stl: whether openscad
\* is on PATH, how the subprocess ends, and whether the output file exists.
ConvOutcomes == {"ok", "not_found", "failed", "timeout", "no_output"}

\* The result of scad_to_stl(scad_text) under that outcome: the STL bytes, or
\* the RuntimeError it raises.
scad_to_stl(scad_text, outcome) ==
    CASE outcome = "not_found" ->
           [raised |-> TRUE, data |-> <<>>,
            message |-> "OpenSCAD CLI not found. Install OpenSCAD and ensure openscad is on PATH"]
      [] outcome = "failed" ->
           [raised |-> TRUE, data |-> <<>>, message |-> "OpenSCAD failed"]
      [] outcome = "timeout" ->
           [raised |-> TRUE, data |-> <<>>, message |-> "OpenSCAD timeout"]
      [] outcome = "no_output" ->
           [raised |-> TRUE, data |-> <<>>, message |-> "OpenSCAD did not produce an STL"]
      [] OTHER -> [raised |-> FALSE, data |-> <<"stl">>, message |-> ""]

\* ------------------------------------------------------ request arguments
\* A numeric query argument is absent, a text int()/float() rejects, or a
\* number.  A flag argument is <<>> when absent and <<text>> otherwise.
Absent == [k |-> "absent", v |-> 0]

Bad == [k |-> "bad", v |-> 0]

Num(v) == [k |-> "num", v |-> v]

\* int(request.args.get(name, default)) / float(request.args.get(name, default))
\* on an argument that parses.
Parse(arg, default) == IF arg.k = "absent" THEN default ELSE arg.v

\* request.args.get(name, default) in ('1', 'true', 'yes')
FlagOn(flag, default) == (IF flag = <<>> THEN default ELSE flag[1]) \in {"1", "true", "yes"}

\* max(1, min(80, n))
Clamp(n) == Max(MinDim, Min(MaxDim, n))

CoreFields == {"cols", "rows", "cell", "height", "wall"}

FeatureFields == {"grid_pitch", "grid_thick", "grid_h", "post_d", "post_h"}

\* The arguments the try block of preview_svg parses.
PreviewFields == {"cols", "rows", "cell", "wall", "post_d", "post_h",
                  "grid_pitch", "grid_thick", "grid_h"}

AnyBad(a, fields) == \E f \in fields : a[f].k = "bad"

\* grid = {'enable': ..., 'pitch': ..., 'thickness': ..., 'height': ...}
GridDict(a) ==
    Some([enable |-> FlagOn(a.grid, "1"),
          pitch |-> Parse(a.grid_pitch, DefaultPitch),
          thickness |-> Parse(a.grid_thick, DefaultRib),
          height |-> Parse(a.grid_h, DefaultRibH)])

\* posts = {'enable': ..., 'diameter': ..., 'height': ...}
PostsDict(a) ==
    Some([enable |-> FlagOn(a.posts, "0"),
          diameter |-> Parse(a.post_d, DefaultPostD),
          height |-> Parse(a.post_h, DefaultPostH)])

\* generate_scad(cols, rows, cell, height, wall, clearance=0.2, grid=grid, posts=posts)
\* as download_scad, model_stl and download_stl call it.
HandlerScad(a) ==
    generate_scad(Clamp(Parse(a.cols, DefaultCols)), Clamp(Parse(a.rows, DefaultRows)),
                  Parse(a.cell, DefaultCell), Parse(a.height, DefaultHeight),
                  Parse(a.wall, DefaultWall), DefaultClearance,
                  GridDict(a), PostsDict(a))

\* svg.replace('</svg>', '\n' + '\n'.join(insert) + '\n</svg>') on the text
\* joined by '\n': every closing-tag line becomes an empty line, the inserted
\* lines and the closing tag.
ReplaceClose(doc, insert) ==
    Flatten([i \in 1..Len(doc) |->
               IF doc[i].op = "svg_close"
               THEN << L("blank", "", <<>>) >> \o insert \o << doc[i] >>
               ELSE << doc[i] >>])

PostMarkers(cols, rows, cell, post_d) ==
    LET xy == ForXY(cols, rows)
    IN [k \in 1..Len(xy) |->
          L("circle", "", <<CellCenter(xy[k][1], cell), CellCenter(xy[k][2], cell),
                            Half(post_d)>>)]

\* The body of preview_svg after its arguments parsed.
PreviewDoc(a) ==
    LET cols == Clamp(Parse(a.cols, DefaultCols))
        rows == Clamp(Parse(a.rows, DefaultRows))
        cell == Parse(a.cell, DefaultCell)
        wall == Parse(a.wall, DefaultWall)
        doc == generate_svg(cols, rows, cell, wall)
    IN IF FlagOn(a.posts, "0")
       THEN ReplaceClose(doc, PostMarkers(cols, rows, cell, Parse(a.post_d, DefaultPostD)))
       ELSE doc

\* ------------------------------------------------------------ the inputs
Cells == {4 * k : k \in 1..MaxCellQ}

Walls == {2 * k : k \in 0..MaxWallHalf}

Clearances == {2 * k : k \in 0..MaxClearanceHalf}

Pitches == 0..MaxPitch

Ribs == {2 * k : k \in 1..MaxRibHalf}

Heights == {2 * k : k \in 1..MaxHeightHalf}

\* A request that passes no argument: every value is the handler's default.
NoArgs ==
    [cols |-> Absent, rows |-> Absent, cell |-> Absent, height |-> Absent,
     wall |-> Absent, grid |-> <<>>, grid_pitch |-> Absent, grid_thick |-> Absent,
     grid_h |-> Absent, posts |-> <<>>, post_d |-> Absent, post_h |-> Absent]

\* Requests on small trays: the floor grid off, or on with a pitch and a rib
\* thickness; posts off or on.
GridRequests ==
    { [NoArgs EXCEPT !.cols = Num(c), !.rows = Num(r), !.cell = Num(ce), !.wall = Num(w),
                     !.grid = g[1], !.grid_pitch = g[2], !.grid_thick = g[3],
                     !.posts = p] :
        c \in 1..MaxCols, r \in 1..MaxRows, ce \in Cells, w \in Walls,
        g \in {<< <<"0">>, Absent, Absent >>}
              \cup {<< <<"1">>, Num(pi), Num(t) >> : pi \in Pitches, t \in Ribs},
        p \in {<<"0">>, <<"1">>} }

\* The default request with one argument changed: an argument that does not
\* parse, a grid size outside [1, 80] (on small cells), the other spellings
\* of a flag.
EdgeRequests ==
    {NoArgs}
    \cup { [NoArgs EXCEPT ![f] = Bad] : f \in CoreFields \cup FeatureFields }
    \cup { [NoArgs EXCEPT !.cols = Num(n), !.cell = Num(ce)] :
             n \in {0, MaxDim + 1}, ce \in Cells }
    \cup { [NoArgs EXCEPT !.rows = Num(n), !.cell = Num(ce)] :
             n \in {0, MaxDim + 1}, ce \in Cells }
    \cup { [NoArgs EXCEPT !.height = Num(h)] : h \in Heights }
    \cup { [NoArgs EXCEPT !.grid = <<t>>] : t \in {"true", "yes", "no"} }
    \cup { [NoArgs EXCEPT !.posts = <<t>>] : t \in {"true", "yes", "no"} }

\* The scenarios of the documentation: a 2 x 2 tray of 51 mm cells with posts,
\* a 1 x 1 tray whose cell (3.1 mm) is thinner than wall + clearance, and a
\* 1 x 1 tray of 49.5 mm with the default floor grid.
ScenarioRequests ==
    { [NoArgs EXCEPT !.cols = Num(2), !.rows = Num(2), !.posts = <<"1">>],
      [NoArgs EXCEPT !.cols = Num(1), !.rows = Num(1), !.cell = Num(62)],
      [NoArgs EXCEPT !.cols = Num(1), !.rows = Num(1), !.cell = Num(990)] }

Requests == GridRequests \cup EdgeRequests \cup ScenarioRequests

\* The grid and posts arguments of a direct call of generate_scad.
GridOptions ==
    {None, Some(<<>>), Some([enable |-> FALSE]), Some([enable |-> TRUE])}
    \cup { Some([enable |-> TRUE, pitch |-> pi, thickness |-> t, height |-> 2]) :
             pi \in Pitches, t \in Ribs }

PostsOptions ==
    {None, Some([enable |-> TRUE]), Some([enable |-> TRUE, diameter |-> 2, height |-> 2])}

ScadCalls ==
    [cols : 1..MaxCols, rows : 1..MaxRows, cell : Cells, height : Heights, wall : Walls,
     clearance : Clearances, grid : GridOptions, posts : PostsOptions]

SvgCalls == [cols : 1..MaxCols, rows : 1..MaxRows, cell : Cells, wall : Walls]

Handlers == {"preview_svg", "download_scad", "model_stl", "download_stl"}

\* ------------------------------------------------------ the state machine
\* One run: an entry point of app.py is called with its arguments (phase
\* "received"), runs to its end and leaves its result (phase "done").
Init ==
    /\ \/ entry \in Handlers /\ args \in Requests
       \/ entry = "generate_scad" /\ args \in ScadCalls
       \/ entry = "generate_svg" /\ args \in SvgCalls
    /\ phase = "received"
    /\ status = 0
    /\ error = ""
    /\ scad = <<>>
    /\ svg = <<>>
    /\ converted = <<>>
    /\ stl = <<>>

\* Response('Invalid parameters', status=400)
Reject400 ==
    /\ status' = 400
    /\ error' = "Invalid parameters"
    /\ UNCHANGED <<scad, svg, converted, stl>>

\* float() raises ValueError outside the try block: the handler ends with
\* the exception, which Flask turns into a 500 response.
Uncaught ==
    /\ status' = 500
    /\ error' = "ValueError"
    /\ UNCHANGED <<scad, svg, converted, stl>>

preview_svg ==
    /\ entry = "preview_svg" /\ phase = "received"
    /\ phase' = "done"
    /\ IF AnyBad(args, PreviewFields)
       THEN Reject400
       ELSE /\ svg' = PreviewDoc(args)
            /\ status' = 200
            /\ UNCHANGED <<error, scad, converted, stl>>
    /\ UNCHANGED <<entry, args>>

download_scad ==
    /\ entry = "download_scad" /\ phase = "received"
    /\ phase' = "done"
    /\ IF AnyBad(args, CoreFields)
       THEN Reject400
       ELSE IF AnyBad(args, FeatureFields)
       THEN Uncaught
       ELSE /\ scad' = HandlerScad(args)
            /\ status' = 200
            /\ UNCHANGED <<error, svg, converted, stl>>
    /\ UNCHANGED <<entry, args>>

\* The part model_stl and download_stl share: generate the text, hand it to
\* scad_to_stl, answer 500 with the RuntimeError's message or 200 with the STL.
\* The two differ only in how send_file labels the bytes (inline, or as the
\* attachment gridfinity_<cols>x<rows>_<int(cell)>mm.stl), which is not part
\* of the state; the same holds for the attachment name of download_scad.
StlHandler ==
    /\ phase' = "done"
    /\ IF AnyBad(args, CoreFields)
       THEN Reject400
       ELSE IF AnyBad(args, FeatureFields)
       THEN Uncaught
       ELSE \E outcome \in ConvOutcomes :
              LET text == HandlerScad(args)
                  r == scad_to_stl(text, outcome)
              IN /\ scad' = text
                 /\ converted' = Append(converted, text)
                 /\ IF r.raised
                    THEN status' = 500 /\ error' = r.message /\ stl' = <<>>
                    ELSE status' = 200 /\ error' = "" /\ stl' = r.data
                 /\ UNCHANGED svg
    /\ UNCHANGED <<entry, args>>

model_stl ==
    /\ entry = "model_stl" /\ phase = "received"
    /\ StlHandler

download_stl ==
    /\ entry = "download_stl" /\ phase = "received"
    /\ StlHandler

\* A direct call generate_scad(cols, rows, cell, height, wall, clearance, grid, posts).
call_generate_scad ==
    /\ entry = "generate_scad" /\ phase = "received"
    /\ phase' = "done"
    /\ scad' = generate_scad(args.cols, args.rows, args.cell, args.height, args.wall,
                             args.clearance, args.grid, args.posts)
    /\ UNCHANGED <<entry, args, status, error, svg, converted, stl>>

\* A direct call generate_svg(cols, rows, cell, wall).
call_generate_svg ==
    /\ entry = "generate_svg" /\ phase = "received"
    /\ phase' = "done"
    /\ svg' = generate_svg(args.cols, args.rows, args.cell, args.wall)
    /\ UNCHANGED <<entry, args, status, error, scad, converted, stl>>

Next ==
    \/ preview_svg
    \/ download_scad
    \/ model_stl
    \/ download_stl
    \/ call_generate_scad
    \/ call_generate_svg

Spec == Init /\ [][Next]_vars

\* ------------------------------------------- what the emitted texts denote
\* The lines of a text with a given op, in order.
LinesOf(text, op) == SelectSeq(text, LAMBDA l : l.op = op)

\* The indices of the lines of a text with a given op and name.
Where(text, op, name) == {i \in 1..Len(text) : text[i].op = op /\ text[i].name = name}

\* The value the header of a .scad text assigns to a variable.
ScadVar(text, name) == text[CHOOSE i \in Where(text, "assign", name) : TRUE].a[1]

\* The values an OpenSCAD range [first : step : last] iterates over, for a
\* step >= 0: first, first + step, ... while not past last (last included);
\* nothing when the step is 0 or first is past last.
RECURSIVE ScadRangeFrom(_, _, _)
ScadRangeFrom(v, step, last) ==
    IF v > last THEN <<>> ELSE <<v>> \o ScadRangeFrom(v + step, step, last)

ScadRange(first, step, last) ==
    IF step <= 0 THEN <<>> ELSE ScadRangeFrom(first, step, last)

\* The outer cube of module tray(): cube([total_x, total_y, height + wall]).
OuterBox(text) ==
    LET c == LinesOf(text, "cube_outer")[1]
    IN [x0 |-> 0, y0 |-> 0, z0 |-> 0, x1 |-> c.a[1], y1 |-> c.a[2],
        z1 |-> ScadVar(text, "height") + ScadVar(text, "wall")]

\* The boxes module tray() subtracts: for each x and y of the two ranges,
\* pocket() moved by [x*cell, y*cell, 0]; pocket() is the cube
\* [pocket_w, pocket_h, height] moved by [wall/2 + clearance/2, same, 0].
PocketBoxes(text) ==
    LET f == LinesOf(text, "for_xy")[1]
        t == LinesOf(text, "translate_cell")[1]
        p == LinesOf(text, "translate_inset")[1]
        c == LinesOf(text, "cube_height")[1]
        cell == ScadVar(text, "cell")
        inset == Half(ScadVar(text, "wall")) + Half(ScadVar(text, "clearance"))
        xs == ScadRange(f.a[1], 1, f.a[2])
        ys == ScadRange(f.a[3], 1, f.a[4])
        xy == Flatten([i \in 1..Len(xs) |-> [j \in 1..Len(ys) |-> <<xs[i], ys[j]>>]])
    IN [k \in 1..Len(xy) |->
          [cx |-> xy[k][1], cy |-> xy[k][2],
           x0 |-> xy[k][1] * cell + inset,
           y0 |-> xy[k][2] * cell + inset,
           z0 |-> t.a[1] + p.a[1],
           x1 |-> xy[k][1] * cell + inset + c.a[1],
           y1 |-> xy[k][2] * cell + inset + c.a[2],
           z1 |-> t.a[1] + p.a[1] + ScadVar(text, "height")]]

\* The offsets of the ribs a for_x_rib / for_y_rib line draws.
RibOffsets(line) == ScadRange(line.a[1], line.a[2], line.a[3])

OptGet(opt, key, default) ==
    IF opt = None \/ DOMAIN opt[1] = {} THEN default ELSE Get(opt[1], key, default)

\* The arguments the run works with once they parsed.
P ==
    IF entry \in Handlers
    THEN [cols |-> Clamp(Parse(args.cols, DefaultCols)),
          rows |-> Clamp(Parse(args.rows, DefaultRows)),
          cell |-> Parse(args.cell, DefaultCell),
          height |-> Parse(args.height, DefaultHeight),
          wall |-> Parse(args.wall, DefaultWall),
          clearance |-> DefaultClearance,
          grid |-> Enabled(GridDict(args)),
          pitch |-> Parse(args.grid_pitch, DefaultPitch),
          rib |-> Parse(args.grid_thick, DefaultRib),
          posts |-> Enabled(PostsDict(args)),
          post_d |-> Parse(args.post_d, DefaultPostD)]
    ELSE IF entry = "generate_scad"
    THEN [cols |-> args.cols, rows |-> args.rows, cell |-> args.cell,
          height |-> args.height, wall |-> args.wall, clearance |-> args.clearance,
          grid |-> Enabled(args.grid),
          pitch |-> OptGet(args.grid, "pitch", DefaultPitch),
          rib |-> OptGet(args.grid, "thickness", DefaultRib),
          posts |-> Enabled(args.posts),
          post_d |-> OptGet(args.posts, "diameter", DefaultPostD)]
    ELSE [cols |-> args.cols, rows |-> args.rows, cell |-> args.cell,
          height |-> 0, wall |-> args.wall, clearance |-> 0,
          grid |-> FALSE, pitch |-> 0, rib |-> 0, posts |-> FALSE, post_d |-> 0]

GridCells == (0..(P.cols - 1)) \X (0..(P.rows - 1))

HasScad == phase = "done" /\ scad # <<>>

HasSvg == phase = "done" /\ svg # <<>>

\* ------------------------------------------------------------ the claims
\* wall + clearance >= cell: the pocket size is not positive.
InvalidGeometry == P.wall + P.clearance >= P.cell

\* C1: for every input with wall + clearance >= cell, generate_scad fails
\* with InvalidGeometry and returns no model text, complete or partial.
C1_InvalidGeometryFails ==
    (phase = "done" /\ entry = "generate_scad" /\ InvalidGeometry) => scad = <<>>

\* C2: in model_stl and download_stl, scad_to_stl is never invoked on a run
\* whose parameters are geometrically invalid or fail to parse.
C2_NoConversionWhenInvalid ==
    (/\ phase = "done"
     /\ entry \in {"model_stl", "download_stl"}
     /\ \/ AnyBad(args, CoreFields \cup FeatureFields)
        \/ InvalidGeometry)
    => converted = <<>>

\* C3: for cols, rows >= 1 the model text subtracts cols * rows pockets and
\* the preview draws cols * rows pocket rectangles, one per grid cell; with
\* posts enabled the model has cols * rows post cylinders and the preview
\* cols * rows post markers, one per cell, none repeated or skipped.
C3_Counts ==
    /\ HasScad =>
         LET boxes == PocketBoxes(scad)
             cyl == LinesOf(scad, "post")
         IN /\ Len(boxes) = P.cols * P.rows
            /\ {<<boxes[k].cx, boxes[k].cy>> : k \in 1..Len(boxes)} = GridCells
            /\ Len(cyl) = IF P.posts THEN P.cols * P.rows ELSE 0
            /\ P.posts =>
                 {<<cyl[k].a[1], cyl[k].a[2]>> : k \in 1..Len(cyl)}
                   = {<<CellCenter(c[1], P.cell), CellCenter(c[2], P.cell)>> : c \in GridCells}
    /\ HasSvg =>
         LET rects == LinesOf(svg, "rect")
             marks == LinesOf(svg, "circle")
             on == entry = "preview_svg" /\ P.posts
         IN /\ Len(rects) = P.cols * P.rows
            /\ {<<rects[k].a[1], rects[k].a[2]>> : k \in 1..Len(rects)}
                 = {<<c[1] * P.cell + Half(P.wall), c[2] * P.cell + Half(P.wall)>> : c \in GridCells}
            /\ Len(marks) = IF on THEN P.cols * P.rows ELSE 0
            /\ on =>
                 {<<marks[k].a[1], marks[k].a[2]>> : k \in 1..Len(marks)}
                   = {<<CellCenter(c[1], P.cell), CellCenter(c[2], P.cell)>> : c \in GridCells}

C3_Witness ==
    /\ HasScad /\ entry = "model_stl"
    /\ P.cols = 2 /\ P.rows = 2 /\ P.posts
    /\ Len(PocketBoxes(scad)) = 4
    /\ Len(LinesOf(scad, "post")) = 4

Overlap(a, b) ==
    /\ a.x0 < b.x1 /\ b.x0 < a.x1
    /\ a.y0 < b.y1 /\ b.y0 < a.y1

\* C4: for every valid input (wall + clearance < cell) each modelled pocket
\* has size cell - wall - clearance > 0 in both axes, the pocket of cell
\* (x, y) starts at (x*cell + (wall+clearance)/2, y*cell + (wall+clearance)/2),
\* it lies inside its cell with the margin (wall+clearance)/2 on every side,
\* no two pockets overlap, and the envelope is (cols*cell, rows*cell).
C4_PocketGeometry ==
    (HasScad /\ ~InvalidGeometry) =>
        LET boxes == PocketBoxes(scad)
            size == P.cell - P.wall - P.clearance
            margin == Half(P.wall + P.clearance)
        IN /\ OuterBox(scad).x1 = P.cols * P.cell
           /\ OuterBox(scad).y1 = P.rows * P.cell
           /\ \A k \in 1..Len(boxes) :
                LET b == boxes[k]
                IN /\ b.x1 - b.x0 = size /\ b.y1 - b.y0 = size /\ size > 0
                   /\ b.x0 = b.cx * P.cell + margin
                   /\ b.y0 = b.cy * P.cell + margin
                   /\ (b.cx + 1) * P.cell - b.x1 = margin
                   /\ (b.cy + 1) * P.cell - b.y1 = margin
           /\ \A j, k \in 1..Len(boxes) : j # k => ~Overlap(boxes[j], boxes[k])

\* The scenario of the documentation: cols=3, rows=2, cell=51.0, wall=3.0,
\* clearance=0.2 gives 47.8 x 47.8 pockets, cell (0,0) at (1.6, 1.6) and the
\* envelope (153.0, 102.0).
C4_Witness ==
    /\ HasScad /\ entry = "download_scad" /\ args = NoArgs
    /\ Len(PocketBoxes(scad)) = 6
    /\ PocketBoxes(scad)[1].x0 = 32 /\ PocketBoxes(scad)[1].y0 = 32
    /\ PocketBoxes(scad)[1].x1 - PocketBoxes(scad)[1].x0 = 956
    /\ OuterBox(scad).x1 = 3060 /\ OuterBox(scad).y1 = 2040

\* The cell the k-th emitted item belongs to, under either enumeration.
RowMajorCell(k) == <<(k - 1) % P.cols, (k - 1) \div P.cols>>

ColumnMajorCell(k) == <<(k - 1) \div P.rows, (k - 1) % P.rows>>

\* The k-th pocket and post of the model text and the k-th rectangle and
\* marker of the preview all belong to cell Cell(k).
EmittedInOrder(Cell(_)) ==
    /\ HasScad =>
         LET boxes == PocketBoxes(scad)
             cyl == LinesOf(scad, "post")
         IN /\ \A k \in 1..Len(boxes) : <<boxes[k].cx, boxes[k].cy>> = Cell(k)
            /\ \A k \in 1..Len(cyl) :
                 <<cyl[k].a[1], cyl[k].a[2]>>
                   = <<CellCenter(Cell(k)[1], P.cell), CellCenter(Cell(k)[2], P.cell)>>
    /\ HasSvg =>
         LET rects == LinesOf(svg, "rect")
             marks == LinesOf(svg, "circle")
         IN /\ \A k \in 1..Len(rects) :
                 <<rects[k].a[1], rects[k].a[2]>>
                   = <<Cell(k)[1] * P.cell + Half(P.wall), Cell(k)[2] * P.cell + Half(P.wall)>>
            /\ \A k \in 1..Len(marks) :
                 <<marks[k].a[1], marks[k].a[2]>>
                   = <<CellCenter(Cell(k)[1], P.cell), CellCenter(Cell(k)[2], P.cell)>>

\* C5 (as stated): pockets and post centers are enumerated in row-major
\* order, x varying fastest, in the model text and in the preview: the k-th
\* emitted pocket/post belongs to cell (k mod cols, k div cols).
C5_RowMajor == EmittedInOrder(RowMajorCell)

\* C5 (amended): pockets and post centers are enumerated with y varying
\* fastest, in the model text and in the preview alike: the k-th emitted
\* pocket/post belongs to cell (k div rows, k mod rows).
C5_ColumnMajor == EmittedInOrder(ColumnMajorCell)

\* A 2 x 2 grid of cell = 51 with posts: the centers come out in the order
\* (25.5,25.5), (25.5,76.5), (76.5,25.5), (76.5,76.5).
C5_Witness ==
    /\ HasScad /\ P.cols = 2 /\ P.rows = 2 /\ P.cell = DefaultCell /\ P.posts
    /\ [k \in 1..4 |-> <<LinesOf(scad, "post")[k].a[1], LinesOf(scad, "post")[k].a[2]>>]
         = << <<510, 510>>, <<510, 1530>>, <<1530, 510>>, <<1530, 1530>> >>

\* The rib offsets of one axis of length len are t/2, t/2 + p, ... and there
\* are floor((len - t) / p) + 1 of them when t/2 <= len - t/2, else none.
RibsAsSpecified(line, len) ==
    LET o == RibOffsets(line)
        t == P.rib
        p == P.pitch
    IN /\ Len(o) = IF Half(t) <= len - Half(t) THEN (len - t) \div p + 1 ELSE 0
       /\ \A i \in 1..Len(o) : o[i] = Half(t) + (i - 1) * p
       /\ \A i \in 1..(Len(o) - 1) : o[i + 1] - o[i] = p /\ o[i] < o[i + 1]

\* C6: with the floor grid enabled and pitch p > 0, the rib offsets along an
\* axis of length L are t/2, t/2 + p, ... strictly increasing by p, and their
\* count is floor((L - t) / p) + 1 when t/2 <= L - t/2 and 0 otherwise, for
\* the X axis (L = cols*cell) and the Y axis (L = rows*cell).
C6_RibOffsets ==
    (HasScad /\ P.grid /\ P.pitch > 0) =>
        /\ RibsAsSpecified(LinesOf(scad, "for_x_rib")[1], P.cols * P.cell)
        /\ RibsAsSpecified(LinesOf(scad, "for_y_rib")[1], P.rows * P.cell)

C6_Witness ==
    /\ HasScad /\ P.grid /\ P.pitch > 0
    /\ Len(RibOffsets(LinesOf(scad, "for_x_rib")[1])) >= 3
    /\ Len(RibOffsets(LinesOf(scad, "for_y_rib")[1])) = 0

\* The only index of a one-element set of indices, 0 for any other set.
Only(S) == IF Cardinality(S) = 1 THEN CHOOSE i \in S : TRUE ELSE 0

Mentions(text, name) == {i \in 1..Len(text) : text[i].name = name}

\* An optional unit: defined once and invoked once after its definition when
\* on, and not mentioned anywhere in the text when off.
OptionalUnit(text, name, on) ==
    IF on
    THEN /\ Cardinality(Where(text, "module", name)) = 1
         /\ Cardinality(Where(text, "call", name)) = 1
         /\ Only(Where(text, "module", name)) < Only(Where(text, "call", name))
    ELSE Mentions(text, name) = {}

\* C7: the model text defines pocket, then tray, then (only if the floor
\* grid is enabled) floor_grid followed by its invocation, then (only if
\* posts are enabled) posts followed by its invocation, and invokes tray
\* last; every unit is defined before it is invoked, tray is invoked exactly
\* once, and a disabled feature leaves neither definition nor invocation.
C7_EmissionOrder ==
    HasScad =>
        LET pocketDef == Where(scad, "module", "pocket")
            trayDef == Where(scad, "module", "tray")
            trayCall == Where(scad, "call", "tray")
            pocketUse == Where(scad, "translate_cell", "pocket")
            gridDef == Only(Where(scad, "module", "floor_grid"))
            gridCall == Only(Where(scad, "call", "floor_grid"))
            postsDef == Only(Where(scad, "module", "posts"))
            postsCall == Only(Where(scad, "call", "posts"))
        IN /\ Cardinality(pocketDef) = 1 /\ Cardinality(trayDef) = 1
           /\ Only(pocketDef) < Only(trayDef)
           /\ \A i \in pocketUse : Only(pocketDef) < i
           /\ trayCall = {Len(scad)}
           /\ OptionalUnit(scad, "floor_grid", P.grid)
           /\ OptionalUnit(scad, "posts", P.posts)
           /\ P.grid => Only(trayDef) < gridDef /\ gridCall < Len(scad)
           /\ P.posts => Only(trayDef) < postsDef /\ postsCall < Len(scad)
           /\ (P.grid /\ P.posts) => gridCall < postsDef

C7_Witness ==
    /\ HasScad /\ P.grid /\ P.posts
    /\ Where(scad, "call", "floor_grid") # {}
    /\ Where(scad, "call", "posts") # {}

\* C8: the preview is sized exactly cols*cell by rows*cell, holds exactly
\* one outer-border rectangle from (0,0) to (cols*cell, rows*cell) and, for
\* every cell (x, y), one pocket rectangle at (x*cell + wall/2, y*cell + wall/2)
\* of size (cell - wall, cell - wall), clearance ignored; when post markers
\* are requested, one circle of radius diameter/2 per cell center comes after
\* all pocket rectangles and immediately before the closing tag.
C8_Preview ==
    HasSvg =>
        LET w == P.cols * P.cell
            h == P.rows * P.cell
            rects == {i \in 1..Len(svg) : svg[i].op = "rect"}
            marks == {i \in 1..Len(svg) : svg[i].op = "circle"}
            on == entry = "preview_svg" /\ P.posts
        IN /\ svg[1] = L("svg_open", "viewBox", <<0, 0, w, h, w, h>>)
           /\ LinesOf(svg, "rect_border") = << L("rect_border", "", <<0, 0, w, h>>) >>
           /\ \A c \in GridCells :
                Cardinality({i \in rects :
                               svg[i].a = <<c[1] * P.cell + Half(P.wall),
                                            c[2] * P.cell + Half(P.wall),
                                            P.cell - P.wall, P.cell - P.wall>>}) = 1
           /\ Cardinality(rects) = P.cols * P.rows
           /\ Where(svg, "svg_close", "") = {Len(svg)}
           /\ ~on => marks = {}
           /\ on =>
                /\ \A c \in GridCells :
                     Cardinality({i \in marks :
                                    svg[i].a = <<CellCenter(c[1], P.cell),
                                                 CellCenter(c[2], P.cell),
                                                 Half(P.post_d)>>}) = 1
                /\ Cardinality(marks) = P.cols * P.rows
                /\ \A i \in rects : \A j \in marks : i < j
                /\ marks = (Len(svg) - P.cols * P.rows)..(Len(svg) - 1)

C8_Witness ==
    /\ HasSvg /\ entry = "preview_svg" /\ P.posts
    /\ P.cols = 2 /\ P.rows = 2 /\ P.wall > 0
    /\ Len(LinesOf(svg, "circle")) = 4
    /\ svg[Len(svg) - 1].op = "circle"

\* C9: every floor-grid rib box lies inside the tray envelope: for each rib
\* offset o along an axis of length L with rib thickness t, 0 <= o and
\* o + t <= L, for pitch > 0 and thickness > 0 with t <= L.
RibsInside(line, len) ==
    (P.pitch > 0 /\ P.rib > 0 /\ P.rib <= len) =>
        \A i \in 1..Len(RibOffsets(line)) :
            /\ 0 <= RibOffsets(line)[i]
            /\ RibOffsets(line)[i] + P.rib <= len

C9_RibsInsideEnvelope ==
    (HasScad /\ P.grid) =>
        /\ RibsInside(LinesOf(scad, "for_x_rib")[1], P.cols * P.cell)
        /\ RibsInside(LinesOf(scad, "for_y_rib")[1], P.rows * P.cell)

\* C10: the tray keeps a solid floor of thickness wall under every pocket:
\* the outer prism spans z in [0, height + wall], each subtracted pocket
\* spans z in [wall, wall + height], and the ribs and posts stand at z = wall.
C10_SolidFloor ==
    HasScad =>
        /\ OuterBox(scad).z0 = 0
        /\ OuterBox(scad).z1 = P.height + P.wall
        /\ \A k \in 1..Len(PocketBoxes(scad)) :
             /\ PocketBoxes(scad)[k].z0 = P.wall
             /\ PocketBoxes(scad)[k].z1 = P.wall + P.height
        /\ \A i \in 1..Len(scad) :
             /\ scad[i].op \in {"for_x_rib", "for_y_rib"} => scad[i].a[4] = P.wall
             /\ scad[i].op = "post" => scad[i].a[3] = P.wall

====
